---------------------------- MODULE Spec2Model ----------------------------
(***************************************************************************)
(* A model of fetch-repodata.py: one run of fetch() -- the NTP clock       *)
(* lookup, the submission of one fetch_repodata task per (subdir,          *)
(* channel) to a process pool, the workers' HTTP requests (with the        *)
(* urllib3 Retry configuration of the session) and file writes, the        *)
(* collection of the futures' results and the completeness judgment.       *)
(***************************************************************************)
EXTENDS Integers, Sequences, FiniteSets, TLC

(***************************************************************************)
(* Bounds of the model.                                                    *)
(***************************************************************************)
MaxWorkers == 2    \* processes of the pool (os.cpu_count() in the code)
MaxTime == 2       \* the NTP servers answer with a tx_time in 1..MaxTime
MaxScript == 3     \* a server's answers to one request are scripted this far

(***************************************************************************)
(* Program constants.                                                      *)
(***************************************************************************)
RetryTotal == 5    \* Retry(total=5): retries allowed after the first attempt
NumServers == 4    \* len(ntp_pool)

\* The configured lists: two channels and two subdirs (of _DEFAULT_CHANNELS
\* and _DEFAULT_SUBDIRS), enough for a channel to succeed in part or not at all.
channels == <<"bioconda", "conda-forge">>
subdirs == <<"noarch", "linux-64">>
ntp_pool == [i \in 1..NumServers |-> i]

\* Retry(...) is built without status_forcelist: urllib3's default is empty.
StatusForcelist == {}

\* What one HTTP attempt can end in: a 200 with a JSON body, a 200 whose body
\* does not parse, a 404, a 500, or a network error (no response at all).
Responses == {"ok", "badjson", "404", "500", "neterr"}

\* What one NTPClient.request can end in: a response, an NTPException (no
\* response within the timeout, invalid packet), or another exception
\* (socket.gaierror from the address lookup, OSError from the socket).
NtpOutcomes == {"response", "NTPException", "OSError"}

StatusOf(r) == IF r = "404" THEN 404 ELSE IF r = "500" THEN 500 ELSE 200

\* urllib3 Retry.is_retry for a response without a Retry-After header.
IsRetryStatus(status) == status \in StatusForcelist

\* ShouldRetry with the budget counted one too far
ShouldRetryOneMore(r, made) ==
    /\ \/ r = "neterr"
       \/ r # "neterr" /\ IsRetryStatus(StatusOf(r))
    /\ made - 1 <= RetryTotal

\* urllib3 retries an attempt that ended in a network error, or in a status
\* of the forcelist, while the number of retries already used is below total.
ShouldRetry(r, made) ==
    /\ \/ r = "neterr"
       \/ r # "neterr" /\ IsRetryStatus(StatusOf(r))
    /\ made - 1 < RetryTotal

\* time.strftime("%Y-%m-%dT%H:%M:%S+00:00") of datetime.fromtimestamp(tx_time)
FormatTime(tx) == [local |-> tx, offset |-> "+00:00"]

NoTime == [local |-> 0, offset |-> ""]

\* The futures list as the nested loops build it: subdirs outer, channels inner.
SubmitOrder ==
    [k \in 1..(Len(subdirs) * Len(channels)) |->
        [channel |-> channels[((k - 1) % Len(channels)) + 1],
         subdir |-> subdirs[((k - 1) \div Len(channels)) + 1]]]

TaskIds == 1..Len(SubmitOrder)

\* output_dir of a target, and the two files a worker writes there
OutputDir(t) == <<t.channel, t.subdir, "">>
JsonPath(t) == <<t.channel, t.subdir, "repodata.json">>
TimePath(t) == <<t.channel, t.subdir, "repodata.json.time">>
RootTimePath == <<"", "", ".time">>

VARIABLES
    pc,          \* where fetch() is: clock, submit, collect, shutdown, write_root, done
    result,      \* how the run ended: [exc |-> ..., channels |-> ...]
    ntpLog,      \* the NTP requests made so far, in order
    timestamp,   \* the local variable timestamp of fetch()
    futures,     \* the futures list: the tasks submitted so far
    wpc,         \* per task: unsubmitted, pending, get, mkdir, wtime, wjson, done
    argTime,     \* per task: the timestamp argument pickled at submit
    resp,        \* per task: the answer that ended its request ("none" before)
    outcome,     \* per task: none, true, false, or the exception raised
    collected,   \* tasks whose future.result() the orchestrator has taken
    unfetched,   \* unfetched_channels
    dirs,        \* directories that exist under output_root
    fs,          \* files under output_root: path -> content
    script,      \* one session.get followed alone: the server's answers, in order
    attempts,    \* ... the HTTP attempts issued so far by that call
    got,         \* ... what the call ended in ("pending" until then)
    arg,         \* one function call followed alone: its arguments
    ret          \* ... its progress and return value

getVars == <<script, attempts, got>>

callVars == <<arg, ret>>

vars == <<pc, result, ntpLog, timestamp, futures, wpc, argTime, resp,
          outcome, collected, unfetched, dirs, fs, getVars, callVars>>

NoResult == [exc |-> "none", msg |-> "", channels |-> {}]

Write(f, path, content) ==
    [p \in DOMAIN f \cup {path} |-> IF p = path THEN content ELSE f[p]]

EmptyFs == [p \in {} |-> NoTime]

Init ==
    /\ pc = "clock"
    /\ result = NoResult
    /\ ntpLog = <<>>
    /\ timestamp = NoTime
    /\ futures = <<>>
    /\ wpc = [i \in TaskIds |-> "unsubmitted"]
    /\ argTime = [i \in TaskIds |-> NoTime]
    /\ resp = [i \in TaskIds |-> "none"]
    /\ outcome = [i \in TaskIds |-> "none"]
    /\ collected = {}
    /\ unfetched = {}
    /\ dirs = {}
    /\ fs = EmptyFs
    /\ script = <<>>
    /\ attempts = 0
    /\ got = "none"
    /\ arg = <<>>
    /\ ret = <<>>

(***************************************************************************)
(* get_ntp_time                                                            *)
(***************************************************************************)
\* the server the for loop is at, given the requests already made
NextServer(log) == ntp_pool[Len(log) + 1]

\* One iteration of the for loop: request the next server of ntp_pool.
QueryServer ==
    /\ pc = "clock"
    /\ Len(ntpLog) < Len(ntp_pool)
    /\ \E o \in NtpOutcomes, tx \in 1..MaxTime :
        /\ ntpLog' = Append(ntpLog, [server |-> NextServer(ntpLog), outcome |-> o,
                                     tx |-> IF o = "response" THEN tx ELSE 0])
        /\ CASE o = "response" ->
                  /\ timestamp' = FormatTime(tx)
                  /\ pc' = "submit"
                  /\ UNCHANGED result
             [] o = "NTPException" ->
                  UNCHANGED <<timestamp, pc, result>>
             [] OTHER ->
                  /\ pc' = "done"
                  /\ result' = [exc |-> o, msg |-> "", channels |-> {}]
                  /\ UNCHANGED timestamp
    /\ UNCHANGED <<futures, wpc, getVars, callVars, argTime, resp, outcome, collected,
                   unfetched, dirs, fs>>

\* ClockFail without the raise: get_ntp_time returns no timestamp and fetch goes on
ClockFailGoesOn ==
    /\ pc = "clock"
    /\ Len(ntpLog) = Len(ntp_pool)
    /\ pc' = "submit"
    /\ UNCHANGED <<result, ntpLog, timestamp, futures, wpc, getVars, callVars, argTime, resp,
                   outcome, collected, unfetched, dirs, fs>>

\* The loop ran out of servers: raise FetchError("Could not get timestamp.")
ClockFail ==
    /\ pc = "clock"
    /\ Len(ntpLog) = Len(ntp_pool)
    /\ pc' = "done"
    /\ result' = [exc |-> "FetchError", msg |-> "Could not get timestamp.",
                   channels |-> {}]
    /\ UNCHANGED <<ntpLog, timestamp, futures, wpc, getVars, callVars, argTime, resp, outcome,
                   collected, unfetched, dirs, fs>>

(***************************************************************************)
(* fetch: submitting the tasks                                             *)
(***************************************************************************)
\* executor.submit(fetch_repodata, session, timestamp, output_config, channel, subdir)
Submit ==
    /\ pc = "submit"
    /\ Len(futures) < Len(SubmitOrder)
    /\ LET k == Len(futures) + 1 IN
        /\ futures' = Append(futures, SubmitOrder[k])
        /\ wpc' = [wpc EXCEPT ![k] = "pending"]
        /\ argTime' = [argTime EXCEPT ![k] = timestamp]
    /\ UNCHANGED <<pc, result, ntpLog, timestamp, getVars, callVars, resp, outcome, collected,
                   unfetched, dirs, fs>>

\* unfetched_channels = set(channels), after the submit loops
BeginCollect ==
    /\ pc = "submit"
    /\ Len(futures) = Len(SubmitOrder)
    /\ unfetched' = {channels[i] : i \in DOMAIN channels}
    /\ pc' = "collect"
    /\ UNCHANGED <<result, ntpLog, timestamp, futures, wpc, getVars, callVars, argTime,
                   resp, outcome, collected, dirs, fs>>

(***************************************************************************)
(* fetch_repodata, run by a process of the pool                            *)
(***************************************************************************)
Running == {i \in TaskIds : wpc[i] \in {"get", "mkdir", "wtime", "wjson"}}

\* The pool hands out the queued calls in submission order, to at most
\* MaxWorkers processes; the call starts with session.get(url).
Start(i) ==
    /\ wpc[i] = "pending"
    /\ \A j \in TaskIds : j < i => wpc[j] # "pending"
    /\ Cardinality(Running) < MaxWorkers
    /\ wpc' = [wpc EXCEPT ![i] = "get"]
    /\ UNCHANGED <<pc, result, ntpLog, timestamp, futures, argTime, resp, outcome,
                   collected, unfetched, dirs, fs, getVars, callVars>>

\* HandleResponse without the 404 branch: every HTTP error status is raised
HandleResponseNo404(r, made) ==
    IF ShouldRetry(r, made) THEN "retry"
    ELSE IF r = "neterr" THEN "ConnectionError"
    ELSE IF IsRetryStatus(StatusOf(r)) THEN "RetryError"
    ELSE IF StatusOf(r) >= 400 THEN "HTTPError"
    ELSE IF r = "badjson" THEN "JSONDecodeError"
    ELSE "parsed"

\* What lines 127-138 make of the response r to attempt number `made`:
\* "retry" (urllib3 issues the request again), "parsed" (the else branch goes
\* on), "false" (return channel, subdir, False) or the exception raised.
HandleResponse(r, made) ==
    IF ShouldRetry(r, made) THEN "retry"
    ELSE IF r = "neterr" THEN "ConnectionError"
    ELSE IF IsRetryStatus(StatusOf(r)) THEN "RetryError"
    ELSE IF StatusOf(r) >= 400
         THEN IF StatusOf(r) = 404 THEN "false" ELSE "HTTPError"
    ELSE IF r = "badjson" THEN "JSONDecodeError"
    ELSE "parsed"

\* the server's answer to attempt number k: the script, its last answer repeated
Answer(s, k) == s[IF k <= Len(s) THEN k ELSE Len(s)]

\* session.get, raise_for_status and json_loads against a server that follows
\* script s, from attempt number `made` on: the answer that ended the call, the
\* attempts issued, and how lines 127-138 end (the first outcome that is no retry).
RECURSIVE RunGet(_, _)
RunGet(s, made) ==
    LET h == HandleResponse(Answer(s, made), made) IN
    IF h = "retry" THEN RunGet(s, made + 1)
    ELSE [answer |-> Answer(s, made), made |-> made, end |-> h]

Scripts == UNION {[1..n -> Responses] : n \in 1..MaxScript}

\* every way the call can end, over the scripted servers
GetEnds == {[answer |-> RunGet(s, 1).answer, end |-> RunGet(s, 1).end] : s \in Scripts}

\* Respond that makes the output directory before it looks at the response
RespondMakesDir(i) ==
    /\ wpc[i] = "get"
    /\ \E e \in GetEnds :
        /\ resp' = [resp EXCEPT ![i] = e.answer]
        /\ IF e.end = "parsed"
           THEN /\ wpc' = [wpc EXCEPT ![i] = "mkdir"]
                /\ UNCHANGED outcome
           ELSE /\ wpc' = [wpc EXCEPT ![i] = "done"]
                /\ outcome' = [outcome EXCEPT ![i] = e.end]
    /\ dirs' = dirs \cup {OutputDir(futures[i])}
    /\ UNCHANGED <<pc, result, ntpLog, timestamp, futures, argTime, collected,
                   unfetched, fs, getVars, callVars>>

\* Lines 127-138 for task i: the request, retried inside session.get as the
\* Retry configuration says, ends in the else branch, a return or a raise.
Respond(i) ==
    /\ wpc[i] = "get"
    /\ \E e \in GetEnds :
        /\ resp' = [resp EXCEPT ![i] = e.answer]
        /\ IF e.end = "parsed"
           THEN /\ wpc' = [wpc EXCEPT ![i] = "mkdir"]
                /\ UNCHANGED outcome
           ELSE /\ wpc' = [wpc EXCEPT ![i] = "done"]
                /\ outcome' = [outcome EXCEPT ![i] = e.end]
    /\ UNCHANGED <<pc, result, ntpLog, timestamp, futures, argTime, collected,
                   unfetched, dirs, fs, getVars, callVars>>

\* os.makedirs(output_dir, exist_ok=True)
Makedirs(i) ==
    /\ wpc[i] = "mkdir"
    /\ dirs' = dirs \cup {OutputDir(futures[i])}
    /\ wpc' = [wpc EXCEPT ![i] = "wtime"]
    /\ UNCHANGED <<pc, result, ntpLog, timestamp, futures, getVars, callVars, argTime,
                   resp, outcome, collected, unfetched, fs>>

\* TimeFileContent from a clock of the worker's own instead of the argument
TimeFileContentOwnClock(i) == FormatTime(1)

\* the content the worker prints into repodata.json.time
TimeFileContent(i) == argTime[i]

\* the serialized document (its text is not followed here)
JsonDump == [local |-> 0, offset |-> "json"]

\* WriteTime that opens repodata.json first
WriteTimeJsonFirst(i) ==
    /\ wpc[i] = "wtime"
    /\ fs' = Write(fs, JsonPath(futures[i]), JsonDump)
    /\ wpc' = [wpc EXCEPT ![i] = "wjson"]
    /\ UNCHANGED <<pc, result, ntpLog, timestamp, futures, getVars, callVars, argTime,
                   resp, outcome, collected, unfetched, dirs>>

\* with open(output_file_path + ".time", "w"): print(timestamp)
WriteTime(i) ==
    /\ wpc[i] = "wtime"
    /\ fs' = Write(fs, TimePath(futures[i]), TimeFileContent(i))
    /\ wpc' = [wpc EXCEPT ![i] = "wjson"]
    /\ UNCHANGED <<pc, result, ntpLog, timestamp, futures, getVars, callVars, argTime,
                   resp, outcome, collected, unfetched, dirs>>

\* with open(output_file_path, "w"): json_dump(...); return channel, subdir, True
WriteJson(i) ==
    /\ wpc[i] = "wjson"
    /\ fs' = Write(fs, JsonPath(futures[i]), JsonDump)
    /\ wpc' = [wpc EXCEPT ![i] = "done"]
    /\ outcome' = [outcome EXCEPT ![i] = "true"]
    /\ UNCHANGED <<pc, result, ntpLog, timestamp, futures, getVars, callVars, argTime,
                   resp, collected, unfetched, dirs>>

(***************************************************************************)
(* fetch: collecting the results                                           *)
(***************************************************************************)
Submitted == 1..Len(futures)

\* IsFatal when the orchestrator swallows the workers' exceptions
IsFatalSwallowed(o) == FALSE

\* what future.result() does with a finished task's outcome
IsFatal(o) == o \notin {"true", "false"}

\* Unfetch in which a failed subdir puts its channel back
UnfetchLastWins(u, channel, success) == IF success THEN u \ {channel} ELSE u \cup {channel}

\* Unfetch that forgets to look at success
UnfetchAlways(u, channel, success) == u \ {channel}

\* the channels left in unfetched_channels after a result (channel, _, success)
Unfetch(u, channel, success) == IF success THEN u \ {channel} ELSE u

\* One iteration of `for future in as_completed(futures)`: a finished future
\* not yet yielded; future.result() returns the outcome or raises.
Collect(i) ==
    /\ pc = "collect"
    /\ i \in Submitted \ collected
    /\ wpc[i] = "done"
    /\ IF IsFatal(outcome[i])
       THEN /\ pc' = "shutdown"
            /\ result' = [exc |-> outcome[i], msg |-> "", channels |-> {}]
            /\ UNCHANGED <<collected, unfetched>>
       ELSE /\ collected' = collected \cup {i}
            /\ unfetched' = Unfetch(unfetched, futures[i].channel, outcome[i] = "true")
            /\ UNCHANGED <<pc, result>>
    /\ UNCHANGED <<ntpLog, timestamp, futures, wpc, getVars, callVars, argTime, resp, outcome,
                   dirs, fs>>

\* AllCollected that is content with the first result
AllCollectedFirst == collected # {}

\* as_completed is exhausted once every future has been yielded
AllCollected == collected = Submitted

\* Judge with the root timestamp written before the completeness check
JudgeWritesFirst ==
    /\ pc = "collect"
    /\ collected = Submitted
    /\ fs' = Write(fs, RootTimePath, timestamp)
    /\ IF unfetched # {}
       THEN /\ pc' = "shutdown"
            /\ result' = [exc |-> "FetchError",
                          msg |-> "No repodata.json found for any subdir in channels %s .",
                          channels |-> unfetched]
       ELSE /\ pc' = "write_root"
            /\ UNCHANGED result
    /\ UNCHANGED <<ntpLog, timestamp, futures, wpc, getVars, callVars, argTime, resp, outcome,
                   collected, unfetched, dirs>>

\* if unfetched_channels: raise FetchError(..., unfetched_channels)
Judge ==
    /\ pc = "collect"
    /\ AllCollected
    /\ IF unfetched # {}
       THEN /\ pc' = "shutdown"
            /\ result' = [exc |-> "FetchError",
                          msg |-> "No repodata.json found for any subdir in channels %s .",
                          channels |-> unfetched]
       ELSE /\ pc' = "write_root"
            /\ UNCHANGED result
    /\ UNCHANGED <<ntpLog, timestamp, futures, wpc, getVars, callVars, argTime, resp, outcome,
                   collected, unfetched, dirs, fs>>

\* An exception leaves the `with ProcessPoolExecutor()` block: __exit__ is
\* shutdown(wait=True), which returns once every submitted task has run.
ExecutorExit ==
    /\ pc = "shutdown"
    /\ \A i \in Submitted : wpc[i] = "done"
    /\ pc' = "done"
    /\ UNCHANGED <<result, ntpLog, timestamp, futures, wpc, getVars, callVars, argTime,
                   resp, outcome, collected, unfetched, dirs, fs>>

\* with open(f"{output_root}/.time", "w"): print(timestamp)
WriteRoot ==
    /\ pc = "write_root"
    /\ fs' = Write(fs, RootTimePath, timestamp)
    /\ pc' = "done"
    /\ result' = [exc |-> "ok", msg |-> "", channels |-> {}]
    /\ UNCHANGED <<ntpLog, timestamp, futures, wpc, getVars, callVars, argTime, resp, outcome,
                   collected, unfetched, dirs>>

Next ==
    \/ QueryServer
    \/ ClockFail
    \/ Submit
    \/ BeginCollect
    \/ \E i \in TaskIds : Start(i)
    \/ \E i \in TaskIds : Respond(i)
    \/ \E i \in TaskIds : Makedirs(i)
    \/ \E i \in TaskIds : WriteTime(i)
    \/ \E i \in TaskIds : WriteJson(i)
    \/ \E i \in TaskIds : Collect(i)
    \/ Judge
    \/ ExecutorExit
    \/ WriteRoot

Spec == Init /\ [][Next]_vars

(***************************************************************************)
(* One session.get followed attempt by attempt, against every scripted     *)
(* server: the retry loop of urllib3 under the session's Retry object.     *)
(***************************************************************************)
GetInit ==
    /\ pc = "clock"
    /\ result = NoResult
    /\ ntpLog = <<>>
    /\ timestamp = NoTime
    /\ futures = <<>>
    /\ wpc = [i \in TaskIds |-> "unsubmitted"]
    /\ argTime = [i \in TaskIds |-> NoTime]
    /\ resp = [i \in TaskIds |-> "none"]
    /\ outcome = [i \in TaskIds |-> "none"]
    /\ collected = {}
    /\ unfetched = {}
    /\ dirs = {}
    /\ fs = EmptyFs
    /\ script \in Scripts
    /\ attempts = 1
    /\ got = "pending"
    /\ arg = <<>>
    /\ ret = <<>>

\* The attempt in flight is answered: urllib3 issues the request again, or
\* the call (with raise_for_status and json_loads after it) ends.
GetStep ==
    /\ got = "pending"
    /\ LET h == HandleResponse(Answer(script, attempts), attempts) IN
        IF h = "retry"
        THEN /\ attempts' = attempts + 1
             /\ UNCHANGED got
        ELSE /\ got' = h
             /\ UNCHANGED attempts
    /\ UNCHANGED <<pc, result, ntpLog, timestamp, futures, wpc, argTime, resp, outcome,
                   collected, unfetched, dirs, fs, script, callVars>>

GetNext == GetStep

GetSpec == GetInit /\ [][GetNext]_vars

(***************************************************************************)
(* Single calls followed alone.  The run's own variables stay as in Init;  *)
(* arg holds the arguments of the call and ret its progress and result.    *)
(***************************************************************************)
CallInit(a) ==
    /\ pc = "clock"
    /\ result = NoResult
    /\ ntpLog = <<>>
    /\ timestamp = NoTime
    /\ futures = <<>>
    /\ wpc = [i \in TaskIds |-> "unsubmitted"]
    /\ argTime = [i \in TaskIds |-> NoTime]
    /\ resp = [i \in TaskIds |-> "none"]
    /\ outcome = [i \in TaskIds |-> "none"]
    /\ collected = {}
    /\ unfetched = {}
    /\ dirs = {}
    /\ fs = EmptyFs
    /\ script = <<>>
    /\ attempts = 0
    /\ got = "none"
    /\ arg = a
    /\ ret = [done |-> FALSE]

runVars == <<pc, result, ntpLog, timestamp, futures, wpc, argTime, resp, outcome,
             collected, unfetched, dirs, fs, getVars>>

(***************************************************************************)
(* cleanup_unneeded_info                                                   *)
(***************************************************************************)
MaxFiles == 1      \* package entries per packages mapping

PackagesKeys == {"packages", "packages.conda"}

Restrict(f, S) == [x \in S |-> f[x]]

\* cleanup_unneeded_info that rebuilds "packages" only
CleanupPackagesOnly(repodata, trim_keys) ==
    IF trim_keys = {} THEN repodata
    ELSE [k \in DOMAIN repodata |->
            IF k = "packages"
            THEN [filename \in DOMAIN repodata[k] |->
                     Restrict(repodata[k][filename],
                              DOMAIN repodata[k][filename] \ trim_keys)]
            ELSE repodata[k]]

\* cleanup_unneeded_info(repodata, trim_keys)
Cleanup(repodata, trim_keys) ==
    IF trim_keys = {} THEN repodata
    ELSE [k \in DOMAIN repodata |->
            IF k \in PackagesKeys
            THEN [filename \in DOMAIN repodata[k] |->
                     Restrict(repodata[k][filename],
                              DOMAIN repodata[k][filename] \ trim_keys)]
            ELSE repodata[k]]

\* The documents tried: an optional "info" mapping (which has a key that is
\* also a trim key), and optional "packages" and "packages.conda" mappings of
\* up to MaxFiles entries, each entry a mapping of some attributes to values.
PkgAttrs == {"name", "md5"}
PkgValues == {"x", "y"}
Packages == UNION {[S -> PkgValues] : S \in SUBSET PkgAttrs}
PackageMaps == UNION {[F -> Packages] : F \in SUBSET (1..MaxFiles)}
InfoValue == [a \in {"subdir"} |-> "x"]

\* an optional entry is a set of at most one value
Optional(S) == {{}} \cup {{x} : x \in S}

DocOf(info, pkgs, conda) ==
    [k \in {x \in {"info"} : info # {}} \cup {x \in {"packages"} : pkgs # {}}
           \cup {x \in {"packages.conda"} : conda # {}} |->
        IF k = "info" THEN CHOOSE v \in info : TRUE
        ELSE IF k = "packages" THEN CHOOSE v \in pkgs : TRUE
        ELSE CHOOSE v \in conda : TRUE]

Docs == {DocOf(i, p, c) : i \in Optional({InfoValue}), p \in Optional(PackageMaps),
                          c \in Optional(PackageMaps)}

TrimSets == SUBSET {"md5", "subdir"}

TrimInit == \E d \in Docs, k \in TrimSets : CallInit([repodata |-> d, trim_keys |-> k])

\* output_repodata = cleanup_unneeded_info(input_repodata, trim_keys)
TrimStep ==
    /\ ~ret.done
    /\ ret' = [done |-> TRUE, again |-> FALSE, value |-> Cleanup(arg.repodata, arg.trim_keys)]
    /\ UNCHANGED <<runVars, arg>>

\* the transformation applied once more, to its own output
TrimAgain ==
    /\ ret.done /\ ~ret.again
    /\ ret' = [done |-> TRUE, again |-> TRUE, value |-> Cleanup(ret.value, arg.trim_keys)]
    /\ arg' = [arg EXCEPT !.repodata = ret.value]
    /\ UNCHANGED runVars

TrimNext == TrimStep \/ TrimAgain

TrimSpec == TrimInit /\ [][TrimNext]_vars

(***************************************************************************)
(* The output path of a target (fetch_repodata, lines 124 and 140)         *)
(***************************************************************************)
MaxLen == 4        \* characters of a channel URL

\* strings are sequences of characters; the characters tried
Chars == {"/", ":", "a"}

\* urllib.parse.quote of one character with the default safe="/": letters and
\* the slash stay, the colon is percent-encoded
QuoteChar(c) == IF c = ":" THEN <<"%", "3", "A">> ELSE <<c>>

RECURSIVE Quote(_)
Quote(s) == IF s = <<>> THEN <<>> ELSE QuoteChar(Head(s)) \o Quote(Tail(s))

\* re.sub("//", "%2F/", s): the non-overlapping matches, leftmost first
RECURSIVE ReSub(_)
ReSub(s) ==
    IF Len(s) < 2 THEN s
    ELSE IF s[1] = "/" /\ s[2] = "/"
         THEN <<"%", "2", "F", "/">> \o ReSub(SubSeq(s, 3, Len(s)))
         ELSE <<s[1]>> \o ReSub(Tail(s))

\* url_prefix = f"{channel}/{subdir}"
UrlPrefix(channel, subdir) == channel \o <<"/">> \o subdir

ChannelUrls == UNION {[1..n -> Chars] : n \in 1..MaxLen}

PathInit == \E c \in ChannelUrls : CallInit([channel |-> c, subdir |-> <<"a">>])

\* urllib_quote(url_prefix)
PathQuote ==
    /\ ~ret.done
    /\ "quoted" \notin DOMAIN ret
    /\ ret' = [done |-> FALSE, quoted |-> Quote(UrlPrefix(arg.channel, arg.subdir))]
    /\ UNCHANGED <<runVars, arg>>

\* output_subdir = re_sub("//", "%2F/", ...)
PathSub ==
    /\ ~ret.done
    /\ "quoted" \in DOMAIN ret
    /\ ret' = [done |-> TRUE, quoted |-> ret.quoted, value |-> ReSub(ret.quoted)]
    /\ UNCHANGED <<runVars, arg>>

PathNext == PathQuote \/ PathSub

PathSpec == PathInit /\ [][PathNext]_vars

(***************************************************************************)
(* The submit loops of fetch (lines 174-181), over any configured lists    *)
(***************************************************************************)
MaxList == 2       \* entries of a configured channel or subdir list

ChannelNames == {"bioconda", "conda-forge"}
SubdirNames == {"noarch", "linux-64"}

\* what parse_args can hand to fetch: tuples of the --channel and --subdir
\* values in the order given, a value given twice being there twice
ListsOf(S) == UNION {[1..n -> S] : n \in 1..MaxList}

ExpandInit ==
    \E cs \in ListsOf(ChannelNames), ss \in ListsOf(SubdirNames) :
        CallInit([channels |-> cs, subdirs |-> ss])

\* for subdir in subdirs: -- the loops are entered
ExpandBegin ==
    /\ ~ret.done
    /\ "futures" \notin DOMAIN ret
    /\ ret' = [done |-> FALSE, si |-> 1, ci |-> 1, futures |-> <<>>]
    /\ UNCHANGED <<runVars, arg>>

\* futures.append(executor.submit(fetch_repodata, ..., channel, subdir)), and
\* the inner loop, then the outer one, move on
ExpandStep ==
    /\ ~ret.done
    /\ "futures" \in DOMAIN ret
    /\ ret.si <= Len(arg.subdirs)
    /\ LET last == ret.ci = Len(arg.channels) IN
       ret' = [done |-> FALSE,
               si |-> IF last THEN ret.si + 1 ELSE ret.si,
               ci |-> IF last THEN 1 ELSE ret.ci + 1,
               futures |-> Append(ret.futures,
                                  [channel |-> arg.channels[ret.ci],
                                   subdir |-> arg.subdirs[ret.si]])]
    /\ UNCHANGED <<runVars, arg>>

\* the outer loop is exhausted
ExpandEnd ==
    /\ ~ret.done
    /\ "futures" \in DOMAIN ret
    /\ ret.si > Len(arg.subdirs)
    /\ ret' = [ret EXCEPT !.done = TRUE]
    /\ UNCHANGED <<runVars, arg>>

ExpandNext == ExpandBegin \/ ExpandStep \/ ExpandEnd

ExpandSpec == ExpandInit /\ [][ExpandNext]_vars

(***************************************************************************)
(* The trim options: get_argument_parser, AppendDefaultAction, parse_args  *)
(***************************************************************************)
MaxArgs == 3       \* options on the command line

\* OutputConfig.trim_keys, the default of --trim-key
DefaultTrimKeys ==
    <<"md5", "subdir", "license_family", "app_entry", "app_own_environment",
      "app_type", "arch", "icon", "platform", "summary", "type", "binstar",
      "has_prefix", "machine", "operatingsystem", "target-triplet">>

\* the command lines tried: --trim, and --trim-key with a key that is no
\* default key or with one that is
TrimOptions ==
    {[opt |-> "--trim", value |-> ""],
     [opt |-> "--trim-key", value |-> "version"],
     [opt |-> "--trim-key", value |-> "md5"]}

ArgLines == UNION {[1..n -> TrimOptions] : n \in 0..MaxArgs}

\* AppendDefaultAction.__call__ that starts from a copy of the default
AppendToDefault(items, value) == [is_default |-> FALSE, items |-> Append(items.items, value)]

\* AppendDefaultAction.__call__: the attribute after the call, given the one
\* before (the default object itself, or a list of this action's making)
AppendDefault(items, value) ==
    LET start == IF items.is_default THEN <<>> ELSE items.items
    IN  [is_default |-> FALSE, items |-> Append(start, value)]

SeqToSet(q) == {q[i] : i \in DOMAIN q}

ArgInit == \E a \in ArgLines : CallInit(a)

\* parser.parse_args starts from the defaults: trim False, trim_keys the
\* default object
ArgBegin ==
    /\ ~ret.done
    /\ "pos" \notin DOMAIN ret
    /\ ret' = [done |-> FALSE, pos |-> 1, trim |-> FALSE,
               trim_keys |-> [is_default |-> TRUE, items |-> DefaultTrimKeys],
               default |-> DefaultTrimKeys]
    /\ UNCHANGED <<runVars, arg>>

\* the action of the next option is called
ArgStep ==
    /\ ~ret.done
    /\ "pos" \in DOMAIN ret
    /\ ret.pos <= Len(arg)
    /\ LET o == arg[ret.pos] IN
       ret' = IF o.opt = "--trim"
              THEN [ret EXCEPT !.pos = @ + 1, !.trim = TRUE]
              ELSE [ret EXCEPT !.pos = @ + 1,
                               !.trim_keys = AppendDefault(@, o.value)]
    /\ UNCHANGED <<runVars, arg>>

\* parse_args: trim_keys=set(args.trim_keys) if args.trim else {}
ArgEnd ==
    /\ ~ret.done
    /\ "pos" \in DOMAIN ret
    /\ ret.pos > Len(arg)
    /\ ret' = [done |-> TRUE, pos |-> ret.pos, trim |-> ret.trim,
               trim_keys |-> ret.trim_keys, default |-> ret.default,
               config |-> IF ret.trim THEN SeqToSet(ret.trim_keys.items) ELSE {}]
    /\ UNCHANGED <<runVars, arg>>

ArgNext == ArgBegin \/ ArgStep \/ ArgEnd

ArgSpec == ArgInit /\ [][ArgNext]_vars

(***************************************************************************)
(* fetch run again over the output root an earlier run left                *)
(***************************************************************************)
\* The stamp of the earlier run: a tx_time before every one this run can get.
EarlierTime == FormatTime(0)

\* what the earlier run serialized into its repodata.json files
EarlierJson == [local |-> 0, offset |-> "json of the earlier run"]

\* The earlier run ended in success with the first subdir of every channel
\* fetched and the other subdirs answered with 404.
EarlierTargets == {SubmitOrder[i] : i \in {j \in TaskIds : SubmitOrder[j].subdir = subdirs[1]}}

EarlierDirs == {OutputDir(t) : t \in EarlierTargets}

EarlierFs ==
    [p \in {JsonPath(t) : t \in EarlierTargets} \cup {TimePath(t) : t \in EarlierTargets}
           \cup {RootTimePath} |->
        IF p[3] = "repodata.json" THEN EarlierJson ELSE EarlierTime]

\* a new process: everything as after construction, except the directory tree
RerunInit ==
    /\ pc = "clock"
    /\ result = NoResult
    /\ ntpLog = <<>>
    /\ timestamp = NoTime
    /\ futures = <<>>
    /\ wpc = [i \in TaskIds |-> "unsubmitted"]
    /\ argTime = [i \in TaskIds |-> NoTime]
    /\ resp = [i \in TaskIds |-> "none"]
    /\ outcome = [i \in TaskIds |-> "none"]
    /\ collected = {}
    /\ unfetched = {}
    /\ dirs = EarlierDirs
    /\ fs = EarlierFs
    /\ script = <<>>
    /\ attempts = 0
    /\ got = "none"
    /\ arg = <<>>
    /\ ret = <<>>

RerunSpec == RerunInit /\ [][Next]_vars

(***************************************************************************)
(* fetch_repodata when the file system refuses                             *)
(***************************************************************************)
\* what a write that raised part-way left in the file
PartialContent == [local |-> 0, offset |-> "partial"]

\* os.makedirs, open or a write of lines 142-154 raises OSError.  makedirs
\* leaves nothing; open(..., "w") either raises before the file exists or the
\* write after it raises, and then the file is there with part of its content.
WriteFails(i) ==
    /\ wpc[i] \in {"mkdir", "wtime", "wjson"}
    /\ \/ UNCHANGED fs
       \/ /\ wpc[i] = "wtime"
          /\ fs' = Write(fs, TimePath(futures[i]), PartialContent)
       \/ /\ wpc[i] = "wjson"
          /\ fs' = Write(fs, JsonPath(futures[i]), PartialContent)
    /\ wpc' = [wpc EXCEPT ![i] = "done"]
    /\ outcome' = [outcome EXCEPT ![i] = "OSError"]
    /\ UNCHANGED <<pc, result, ntpLog, timestamp, futures, getVars, callVars, argTime,
                   resp, collected, unfetched, dirs>>

IoNext ==
    \/ Next
    \/ \E i \in TaskIds : WriteFails(i)

IoSpec == Init /\ [][IoNext]_vars

(***************************************************************************)
(* Properties                                                              *)
(***************************************************************************)
ChannelSet == {channels[i] : i \in DOMAIN channels}

TasksOf(c) == {i \in TaskIds : SubmitOrder[i].channel = c}

\* every task was submitted, has finished, and returned (none raised)
AllReturned ==
    /\ Len(futures) = Len(SubmitOrder)
    /\ \A i \in TaskIds : wpc[i] = "done" /\ outcome[i] \in {"true", "false"}

\* the channels whose every subdir outcome was success=false
FailingChannels == {c \in ChannelSet : \A i \in TasksOf(c) : outcome[i] = "false"}

\* the run ended in the completeness judgment
CompletenessError ==
    result.exc = "FetchError" /\ result.msg # "Could not get timestamp."

\* the clock lookup ended without a timestamp
ClockFailed == pc = "done" /\ timestamp = NoTime

RootTimeWritten == RootTimePath \in DOMAIN fs

\* C1: once every task has returned and the run has ended, the run failed with
\* FetchError exactly if some channel has no successful target, the FetchError
\* names exactly the channels whose every outcome was success=false, and the
\* run succeeded otherwise.
C1_Completeness ==
    (pc = "done" /\ AllReturned) =>
        /\ CompletenessError <=>
               (\E c \in ChannelSet : \A i \in TasksOf(c) : outcome[i] # "true")
        /\ CompletenessError => result.channels = FailingChannels
        /\ ~CompletenessError => result.exc = "ok"

\* the scenario of the spec: one channel succeeds in part, the other not at all
C1_Witness ==
    /\ pc = "done" /\ AllReturned
    /\ CompletenessError
    /\ result.channels = {"conda-forge"}
    /\ \E i, j \in TasksOf("bioconda") : outcome[i] = "true" /\ outcome[j] = "false"

\* C2: {output_root}/.time exists only once the run has ended successfully; a
\* run that ended in FetchError, a worker's exception or a clock failure has
\* not written it.
C2_RootTimeOnlyOnSuccess ==
    /\ RootTimeWritten => pc = "done" /\ result.exc = "ok"
    /\ (result.exc \notin {"none", "ok"}) => ~RootTimeWritten
    /\ (pc = "done" /\ \E c \in ChannelSet : \A i \in TasksOf(c) : outcome[i] # "true")
           => ~RootTimeWritten

\* a run that ended in the completeness FetchError, with a target on disk
C2_Witness ==
    /\ pc = "done"
    /\ CompletenessError
    /\ \E i \in TaskIds : JsonPath(SubmitOrder[i]) \in DOMAIN fs
    /\ ~RootTimeWritten

\* C3: the completeness judgment has been made (FetchError raised, or the run
\* gone on to write {output_root}/.time) only when every task of the run was
\* submitted, has finished and has had its outcome collected.
C3_JudgeAfterAll ==
    (CompletenessError \/ pc = "write_root" \/ RootTimeWritten) =>
        /\ Len(futures) = Len(SubmitOrder)
        /\ \A i \in TaskIds : wpc[i] = "done" /\ i \in collected

C3_Witness ==
    /\ pc = "write_root"
    /\ \A i \in TaskIds : wpc[i] = "done" /\ i \in collected
    /\ \E i \in TaskIds : outcome[i] = "false"

\* the successful NTP responses of the run
NtpResponses == {k \in DOMAIN ntpLog : ntpLog[k].outcome = "response"}

IsTimePath(p) == p[3] \in {"repodata.json.time", ".time"}

\* C4: the run obtains at most one NTP response, it has it before the first
\* task is submitted, the timestamp is that response's time formatted, and every
\* timestamp file on disk (each repodata.json.time and the root .time) holds
\* that timestamp.
C4_OneTimestamp ==
    /\ Cardinality(NtpResponses) <= 1
    /\ futures # <<>> => Cardinality(NtpResponses) = 1
    /\ \A k \in NtpResponses : timestamp = FormatTime(ntpLog[k].tx)
    /\ \A p \in DOMAIN fs : IsTimePath(p) => fs[p] = timestamp /\ fs[p] # NoTime

\* a successful run with every target written, under the later of the clock values
C4_Witness ==
    /\ pc = "done" /\ result.exc = "ok"
    /\ timestamp = FormatTime(MaxTime)
    /\ \A i \in TaskIds : TimePath(SubmitOrder[i]) \in DOMAIN fs
    /\ RootTimeWritten

\* C5: a request that ends in a 404 makes its worker return success=false, and
\* the run is then never aborted by that target: a run that ends in a worker's
\* exception ends in the exception of a task whose request did not end in a
\* 404, and when the run has ended every task has run, each target that
\* answered 200 with a JSON body being on disk.
C5_NotFoundIsNotFatal ==
    /\ \A i \in TaskIds : resp[i] = "404" => outcome[i] = "false"
    /\ (\E i \in TaskIds : resp[i] = "404") =>
        /\ (result.exc \notin {"none", "ok", "FetchError"}) =>
               \E j \in TaskIds : resp[j] # "404" /\ outcome[j] = result.exc
        /\ pc = "done" =>
               \A j \in TaskIds :
                   /\ wpc[j] = "done"
                   /\ resp[j] = "ok" =>
                          /\ JsonPath(SubmitOrder[j]) \in DOMAIN fs
                          /\ TimePath(SubmitOrder[j]) \in DOMAIN fs

\* a 404 for one subdir of each channel, the siblings written, the run a success
C5_Witness ==
    /\ pc = "done" /\ result.exc = "ok"
    /\ \A c \in ChannelSet :
          \E i, j \in TasksOf(c) :
              /\ resp[i] = "404" /\ outcome[i] = "false"
              /\ resp[j] = "ok" /\ JsonPath(SubmitOrder[j]) \in DOMAIN fs

FatalTasks == {i \in TaskIds : outcome[i] \notin {"none", "true", "false"}}

\* C6: a request that ends in a 500, in a network error or in a body that does
\* not parse is never recorded as an outcome true or false; and a run in which
\* some worker raised ends with the exception of one of those workers, not with
\* FetchError, and without {output_root}/.time.
C6_FatalPropagates ==
    /\ \A i \in TaskIds :
          (resp[i] \in {"500", "neterr", "badjson"}) => i \in FatalTasks
    /\ \A i \in FatalTasks : i \notin collected
    /\ (pc = "done" /\ FatalTasks # {}) =>
          /\ result.exc \in {outcome[i] : i \in FatalTasks}
          /\ result.exc # "FetchError"
          /\ ~RootTimeWritten

\* one worker raised while a whole channel was 404: the run reports the exception
C6_Witness ==
    /\ pc = "done"
    /\ result.exc = "JSONDecodeError"
    /\ \A i \in TasksOf("conda-forge") : outcome[i] = "false"
    /\ \E i \in TasksOf("bioconda") : outcome[i] = "true"
    /\ \E i \in TasksOf("bioconda") : outcome[i] = "JSONDecodeError"

\* C7 (as claimed): a 5xx answer is retried until the attempt budget is used
\* up, so a call ends in the HTTPError of a 500 only after RetryTotal attempts
\* at least, and a server that answers 500 once and then 200 is fetched.
C7_ServerErrorRetried ==
    /\ (got = "HTTPError" /\ Answer(script, attempts) = "500") => attempts >= RetryTotal
    /\ (got # "pending" /\ script = <<"500", "ok">>) => got = "parsed"

\* C8 (as claimed): no request makes more than 5 attempts.
C8_AtMostFiveAttempts == attempts <= 5

\* C8 (amended): no request makes more than RetryTotal + 1 = 6 attempts, the
\* first one and the 5 retries of Retry(total=5).
C8_AtMostSixAttempts == attempts <= RetryTotal + 1

\* every attempt failed with a network error: the sixth was the last
C8_Witness ==
    /\ script = <<"neterr">>
    /\ attempts = RetryTotal + 1
    /\ got = "ConnectionError"

\* C9 (as claimed): the servers are queried in list order, each at most once;
\* a server that fails in any way is followed by the next one; the first
\* response ends the lookup; the lookup fails only after every server failed.
C9_ClockFallsThrough ==
    /\ \A k \in DOMAIN ntpLog : ntpLog[k].server = ntp_pool[k]
    /\ \A k \in NtpResponses : k = Len(ntpLog)
    /\ ClockFailed =>
          /\ Len(ntpLog) = Len(ntp_pool)
          /\ \A k \in DOMAIN ntpLog : ntpLog[k].outcome # "response"

\* C10: while the run has no timestamp (the lookup still running, or failed),
\* no task has been submitted, no request issued and nothing written; so a run
\* whose clock lookup failed ends with all of that still true.
C10_NoFetchWithoutClock ==
    timestamp = NoTime =>
        /\ futures = <<>>
        /\ \A i \in TaskIds : wpc[i] = "unsubmitted" /\ resp[i] = "none"
        /\ dirs = {}
        /\ DOMAIN fs = {}

\* all four servers timed out and the run ended in FetchError
C10_Witness ==
    /\ ClockFailed
    /\ Len(ntpLog) = Len(ntp_pool)
    /\ result.exc = "FetchError"
    /\ futures = <<>>

\* C11: the trimmed document has the top-level keys of the input, its entries
\* other than "packages" and "packages.conda" unchanged, every package entry of
\* the input, each with exactly its attributes outside the trim set, at their
\* values; that holds of a second application too, which returns its input.
C11_Trim ==
    ret.done =>
        LET doc == arg.repodata
            out == ret.value
            keys == arg.trim_keys
        IN  /\ DOMAIN out = DOMAIN doc
            /\ \A k \in DOMAIN doc \ PackagesKeys : out[k] = doc[k]
            /\ \A k \in DOMAIN doc \cap PackagesKeys :
                  /\ DOMAIN out[k] = DOMAIN doc[k]
                  /\ \A f \in DOMAIN doc[k] :
                        /\ DOMAIN out[k][f] = DOMAIN doc[k][f] \ keys
                        /\ \A a \in DOMAIN out[k][f] : out[k][f][a] = doc[k][f][a]
            /\ ret.again => out = doc

\* both mappings hold an entry with a trimmed and a kept attribute, next to "info"
C11_Witness ==
    /\ ret.done /\ ~ret.again
    /\ arg.trim_keys = {"md5", "subdir"}
    /\ DOMAIN arg.repodata = {"info", "packages", "packages.conda"}
    /\ \A k \in PackagesKeys :
          \E f \in DOMAIN arg.repodata[k] :
              /\ DOMAIN arg.repodata[k][f] = {"name", "md5"}
              /\ DOMAIN ret.value[k][f] = {"name"}

\* C12 (as claimed): the output path derived from {channel}/{subdir} has no two
\* consecutive '/' characters.
C12_NoDoubleSlash ==
    ret.done =>
        \A i \in 1..(Len(ret.value) - 1) : ~(ret.value[i] = "/" /\ ret.value[i + 1] = "/")

\* the orchestrator has seen a worker's exception (future.result() raised)
FatalObserved == pc = "shutdown" /\ ~CompletenessError

\* C13 (as claimed): once the orchestrator has observed a worker's fatal error,
\* no task that has not started yet is started.
C13_NoStartAfterFatal ==
    [][FatalObserved => \A i \in TaskIds : wpc[i] = "pending" => wpc'[i] = "pending"]_vars

Range(f) == {f[x] : x \in DOMAIN f}

\* C14 (as claimed): for every configured channel list and subdir list, each
\* (channel, subdir) pair of the lists is submitted exactly once.
C14_EachPairOnce ==
    ret.done =>
        \A c \in Range(arg.channels), sd \in Range(arg.subdirs) :
            Cardinality({k \in DOMAIN ret.futures :
                            ret.futures[k] = [channel |-> c, subdir |-> sd]}) = 1

\* C15 (as claimed): no two tasks of a run write to the same repodata.json or
\* repodata.json.time path.
C15_DistinctPaths ==
    ret.done =>
        \A i, j \in DOMAIN ret.futures :
            i # j => /\ JsonPath(ret.futures[i]) # JsonPath(ret.futures[j])
                     /\ TimePath(ret.futures[i]) # TimePath(ret.futures[j])

\* the keys the user gave with --trim-key, and whether --trim was given
UserKeys == {arg[i].value : i \in {j \in DOMAIN arg : arg[j].opt = "--trim-key"}}
TrimGiven == \E i \in DOMAIN arg : arg[i].opt = "--trim"

\* C16 (as claimed): with --trim and one or more --trim-key, the trim key set
\* of the run holds every default key and every key of the user, and the
\* default is not changed.
C16_DefaultsExtended ==
    ret.done =>
        /\ (TrimGiven /\ UserKeys # {}) =>
               ret.config = SeqToSet(DefaultTrimKeys) \cup UserKeys
        /\ ret.default = DefaultTrimKeys

\* C16 (amended): with --trim and one or more --trim-key, the trim key set of
\* the run is exactly the keys of the user (the defaults are replaced); with
\* --trim alone it is the default set; without --trim it is empty; the default
\* is not changed.
C16_DefaultsReplaced ==
    ret.done =>
        /\ (TrimGiven /\ UserKeys # {}) => ret.config = UserKeys
        /\ (TrimGiven /\ UserKeys = {}) => ret.config = SeqToSet(DefaultTrimKeys)
        /\ ~TrimGiven => ret.config = {}
        /\ ret.default = DefaultTrimKeys

\* --trim with two keys of the user, one of them new
C16_Witness ==
    /\ ret.done
    /\ TrimGiven
    /\ UserKeys = {"version", "md5"}
    /\ ret.config = {"version", "md5"}

\* the answers that make a worker raise
FatalAnswers == {"500", "neterr", "badjson"}

\* the channels none of whose requests ended in a 200 with a JSON body
AbsentChannels == {c \in ChannelSet : \A i \in TasksOf(c) : resp[i] # "ok"}

\* C17: how a run that got its timestamp ends is determined by the answers its
\* targets' requests ended in, whatever the order in which the workers ran,
\* finished and were collected: a worker's exception if some answer is fatal,
\* else FetchError naming the channels without a 200 if there are any, else
\* success; and {output_root}/.time is written exactly in the last case.
C17_ResultFromAnswers ==
    (pc = "done" /\ timestamp # NoTime) =>
        /\ \A i \in TaskIds : resp[i] # "none"
        /\ IF \E i \in TaskIds : resp[i] \in FatalAnswers
           THEN result.exc \in {"HTTPError", "ConnectionError", "JSONDecodeError"}
           ELSE IF AbsentChannels # {}
           THEN CompletenessError /\ result.channels = AbsentChannels
           ELSE result.exc = "ok"
        /\ RootTimeWritten <=>
               /\ \A i \in TaskIds : resp[i] \notin FatalAnswers
               /\ AbsentChannels = {}

\* the first channel all 404, the second one with a 404 and a 200
C17_Witness ==
    /\ pc = "done"
    /\ CompletenessError
    /\ result.channels = {"bioconda"}
    /\ \A i \in TasksOf("bioconda") : resp[i] = "404"
    /\ \E i, j \in TasksOf("conda-forge") : resp[i] = "404" /\ resp[j] = "ok"

\* the repodata.json.time files under the output root
TargetTimePaths == {p \in DOMAIN fs : p[3] = "repodata.json.time"}

\* C18: when the run over an output root that an earlier run left has ended and
\* {output_root}/.time exists, every repodata.json.time under the root holds
\* the timestamp that {output_root}/.time holds.
C18_OneSnapshot ==
    (pc = "done" /\ RootTimeWritten) =>
        \A p \in TargetTimePaths : fs[p] = fs[RootTimePath]

\* the requests of task i ended in a 404 or in a fatal HTTP error
EndedInHttpError(i) == resp[i] \in {"404", "500"}

\* the directory and the two files of target t are as the earlier run left them
AsEarlier(t) ==
    /\ OutputDir(t) \in dirs <=> OutputDir(t) \in EarlierDirs
    /\ \A p \in {JsonPath(t), TimePath(t)} :
        /\ p \in DOMAIN fs <=> p \in DOMAIN EarlierFs
        /\ p \in DOMAIN fs => fs[p] = EarlierFs[p]

\* C20: a worker whose request ended in a 404 or in a fatal HTTP error made no
\* directory and created or rewrote neither repodata.json nor
\* repodata.json.time of its target: they are as the earlier run left them.
C20_FailedWorkerWritesNothing ==
    \A i \in TaskIds : EndedInHttpError(i) => AsEarlier(futures[i])

\* a 404 for a target the earlier run wrote and a 500 for one it did not
C20_Witness ==
    /\ pc = "done"
    /\ \E i, j \in TaskIds :
        /\ resp[i] = "404" /\ futures[i] \in EarlierTargets
        /\ resp[j] = "500" /\ futures[j] \notin EarlierTargets
    /\ \E k \in TaskIds : outcome[k] = "true"

\* C19: from an empty output root, in every state of a run, between a worker's
\* two writes and after a worker failed part-way included, a target's
\* repodata.json is on disk only if its repodata.json.time is.
C19_TimeBeforeJson ==
    \A i \in TaskIds :
        JsonPath(SubmitOrder[i]) \in DOMAIN fs => TimePath(SubmitOrder[i]) \in DOMAIN fs

\* one worker between its two writes, one that failed while it wrote
\* repodata.json, and one that failed before repodata.json existed
C19_Witness ==
    \E i, j, k \in TaskIds :
        /\ wpc[i] = "wjson" /\ JsonPath(futures[i]) \notin DOMAIN fs
        /\ outcome[j] = "OSError" /\ JsonPath(futures[j]) \in DOMAIN fs
        /\ outcome[k] = "OSError" /\ TimePath(futures[k]) \in DOMAIN fs
        /\ JsonPath(futures[k]) \notin DOMAIN fs
=============================================================================
